---- MODULE Spec2Model ----
(***************************************************************************)
(* Model of the two build-support scripts of the repository:               *)
(*   best/io/errnos.py          - the errnos.inc generator                 *)
(*   third_party/fuchsia/shim.py - the header-guard checker shim           *)
(* Text is modelled as sequences of one-character strings, so that the     *)
(* splitting, integer conversion, title-casing and number formatting the   *)
(* generator performs are computed rather than assumed.                    *)
(***************************************************************************)
EXTENDS Integers, Sequences, FiniteSets, TLC

VARIABLES argv, tool, raw, lines, errnos, idx, next, which, out, pc, err, exit,
          spc, envDir, cwd, mainCwd, mainRet, sexit

vars == <<argv, tool, raw, lines, errnos, idx, next, which, out, pc, err, exit,
          spc, envDir, cwd, mainCwd, mainRet, sexit>>

genVars == <<argv, tool, raw, lines, errnos, idx, next, which, out, pc, err, exit>>
shimVars == <<spc, envDir, cwd, mainCwd, mainRet, sexit>>

----------------------------------------------------------------------------
(* Bounds *)
MaxLines == 3
NumDirs == 5
MaxRet == 4

----------------------------------------------------------------------------
(* Characters *)
SP == " "
TAB == "\t"
NL == "\n"

Digits == <<"0", "1", "2", "3", "4", "5", "6", "7", "8", "9">>
Uppers == <<"A", "B", "C", "D", "E", "F", "G", "H", "I", "J", "K", "L", "M",
            "N", "O", "P", "Q", "R", "S", "T", "U", "V", "W", "X", "Y", "Z">>
Lowers == <<"a", "b", "c", "d", "e", "f", "g", "h", "i", "j", "k", "l", "m",
            "n", "o", "p", "q", "r", "s", "t", "u", "v", "w", "x", "y", "z">>

IsDigit(c) == \E d \in 1..10 : Digits[d] = c
DigitVal(c) == (CHOOSE d \in 1..10 : Digits[d] = c) - 1
IsUpper(c) == \E k \in 1..26 : Uppers[k] = c
IsLower(c) == \E k \in 1..26 : Lowers[k] = c
IsCased(c) == IsUpper(c) \/ IsLower(c)
Upper(c) == IF IsLower(c) THEN Uppers[CHOOSE k \in 1..26 : Lowers[k] = c] ELSE c
Lower(c) == IF IsUpper(c) THEN Lowers[CHOOSE k \in 1..26 : Uppers[k] = c] ELSE c
IsSpace(c) == c \in {SP, TAB, NL}

----------------------------------------------------------------------------
(* str.splitlines() *)
RECURSIVE SplitLinesFrom(_, _, _)
SplitLinesFrom(s, k, cur) ==
  IF k > Len(s) THEN (IF cur = <<>> THEN <<>> ELSE <<cur>>)
  ELSE IF s[k] = NL THEN <<cur>> \o SplitLinesFrom(s, k + 1, <<>>)
  ELSE SplitLinesFrom(s, k + 1, Append(cur, s[k]))

SplitLines(s) == SplitLinesFrom(s, 1, <<>>)

(* str.split(" ", 2) *)
MaxSplit == 2

RECURSIVE SplitSpaceFrom(_, _, _, _)
SplitSpaceFrom(s, k, cur, left) ==
  IF k > Len(s) THEN <<cur>>
  ELSE IF s[k] = SP /\ left > 0
       THEN <<cur>> \o SplitSpaceFrom(s, k + 1, <<>>, left - 1)
       ELSE SplitSpaceFrom(s, k + 1, Append(cur, s[k]), left)

(* variant: str.split(" ") with no maxsplit *)
SplitSpaceNoMax(s) == SplitSpaceFrom(s, 1, <<>>, Len(s))
SplitSpace(s) == SplitSpaceFrom(s, 1, <<>>, MaxSplit)

(* int(str) *)
RECURSIVE LStrip(_)
LStrip(s) == IF s # <<>> /\ IsSpace(s[1]) THEN LStrip(Tail(s)) ELSE s
RECURSIVE RStrip(_)
RStrip(s) == IF s # <<>> /\ IsSpace(s[Len(s)]) THEN RStrip(SubSeq(s, 1, Len(s) - 1)) ELSE s
Strip(s) == RStrip(LStrip(s))

IsDigitBody(b) ==
  /\ b # <<>>
  /\ IsDigit(b[1]) /\ IsDigit(b[Len(b)])
  /\ \A k \in 1..Len(b) : IsDigit(b[k]) \/ b[k] = "_"
  /\ \A k \in 1..(Len(b) - 1) : ~(b[k] = "_" /\ b[k + 1] = "_")

RECURSIVE DigitsVal(_, _)
DigitsVal(b, acc) ==
  IF b = <<>> THEN acc
  ELSE IF b[1] = "_" THEN DigitsVal(Tail(b), acc)
  ELSE DigitsVal(Tail(b), 10 * acc + DigitVal(b[1]))

PyInt(s) ==
  LET t == Strip(s)
      signed == t # <<>> /\ t[1] \in {"+", "-"}
      body == IF signed THEN Tail(t) ELSE t
  IN IF IsDigitBody(body)
     THEN [ok |-> TRUE,
           val |-> IF signed /\ t[1] = "-" THEN 0 - DigitsVal(body, 0) ELSE DigitsVal(body, 0)]
     ELSE [ok |-> FALSE, val |-> 0]

(* name, num, message = tuple(line.split(" ", 2)); (int(num), name, message) *)
ParseWith(parts) ==
  IF Len(parts) # 3 THEN [ok |-> FALSE, entry |-> <<>>]
  ELSE LET n == PyInt(parts[2])
       IN IF n.ok THEN [ok |-> TRUE,
                        entry |-> [num |-> n.val, name |-> parts[1], message |-> parts[3]]]
          ELSE [ok |-> FALSE, entry |-> <<>>]

ParseOne(line) == ParseWith(SplitSpace(line))

(* errnos.sort(key=lambda t: t[0]) : stable *)
RECURSIVE InsertStable(_, _)
InsertStable(sorted, e) ==
  IF sorted = <<>> THEN <<e>>
  ELSE IF sorted[Len(sorted)].num <= e.num THEN Append(sorted, e)
  ELSE Append(InsertStable(SubSeq(sorted, 1, Len(sorted) - 1), e), sorted[Len(sorted)])

RECURSIVE SortFrom(_, _, _)
SortFrom(s, k, acc) ==
  IF k > Len(s) THEN acc ELSE SortFrom(s, k + 1, InsertStable(acc, s[k]))

SortByNum(s) == SortFrom(s, 1, <<>>)

(* str.title() *)
RECURSIVE TitleFrom(_, _, _)
TitleFrom(s, k, prevCased) ==
  IF k > Len(s) THEN <<>>
  ELSE IF IsCased(s[k])
       THEN <<IF prevCased THEN Lower(s[k]) ELSE Upper(s[k])>> \o TitleFrom(s, k + 1, TRUE)
       ELSE <<s[k]>> \o TitleFrom(s, k + 1, FALSE)

(* variant: str.capitalize() *)
TitleCapitalize(s) ==
  [k \in 1..Len(s) |-> IF k = 1 THEN Upper(s[k]) ELSE Lower(s[k])]

Title(s) == TitleFrom(s, 1, FALSE)

(* f"{n}" and f"{next:04}" *)
PadWidth == 4

RECURSIVE DecStr(_)
DecStr(n) == IF n < 10 THEN <<Digits[n + 1]>>
             ELSE DecStr(n \div 10) \o <<Digits[(n % 10) + 1]>>

PyStr(n) == IF n < 0 THEN <<"-">> \o DecStr(0 - n) ELSE DecStr(n)

RECURSIVE ZeroPad(_, _)
ZeroPad(s, w) == IF Len(s) >= w THEN s ELSE ZeroPad(<<"0">> \o s, w)

(* variant: f"{next}" with no width *)
FmtNoPad(n) == PyStr(n)

Fmt04(n) == IF n < 0 THEN <<"-">> \o ZeroPad(DecStr(0 - n), PadWidth - 1)
            ELSE ZeroPad(DecStr(n), PadWidth)

----------------------------------------------------------------------------
(* Printed lines.  kind says which print statement produced the line;       *)
(* label is the formatted number, name and message the interpolated texts.  *)
DeclLine(e) == [kind |-> "decl", label |-> <<>>, name |-> Title(e.name), message |-> <<>>]
DefLine(e) == [kind |-> "def", label |-> PyStr(e.num), name |-> Title(e.name), message |-> <<>>]
PlaceholderLine(nx) == [kind |-> "empty", label |-> Fmt04(nx), name |-> <<>>, message |-> <<>>]
EntryLine(nx, e) == [kind |-> "entry", label |-> Fmt04(nx), name |-> e.name, message |-> e.message]

(* while next < n: print placeholder; next += 1 *)
PadLines(nx, n) == [k \in 1..(IF n > nx THEN n - nx ELSE 0) |-> PlaceholderLine(nx + k - 1)]

(* variant: while next <= n *)
TableStepOffByOne(nx, e) ==
  LET pad == PadLines(nx, e.num + 1)
      at == nx + Len(pad)
  IN [lines |-> pad \o <<EntryLine(at, e)>>, next |-> at + 1]

(* one iteration of the table for-loop *)
TableStep(nx, e) ==
  LET pad == PadLines(nx, e.num)
      at == nx + Len(pad)
  IN [lines |-> pad \o <<EntryLine(at, e)>>, next |-> at + 1]

----------------------------------------------------------------------------
(* Inputs *)
Pool == {
  <<"E","P","E","R","M"," ","1"," ","O","p"," ","n","o">>,
  <<"E","2","B","I","G"," ","2"," ","b","i","g">>,
  <<"E","L","2","H"," ","1"," ","x">>,
  <<"E","Z"," ","0"," ","z">>,
  <<"E","X"," ","3"," ">>,
  <<"E","N"," ","-","1"," ","n">>,
  <<"E","X"," ","3">>,
  <<"E","X","\t","3","\t","m">>,
  <<"E","X"," "," ","3"," ","m">>,
  <<"E","X"," ","x","3"," ","m">>,
  <<"E","Z">> }

RECURSIVE JoinLines(_)
JoinLines(ls) == IF ls = <<>> THEN <<>> ELSE ls[1] \o <<NL>> \o JoinLines(Tail(ls))

BigLine == <<"E","B"," ","1","0","0","0","0"," ","b">>

RawInputs ==
  {JoinLines(ls) : ls \in UNION {[1..n -> Pool] : n \in 0..MaxLines}}
    \cup {JoinLines(<<BigLine>>), JoinLines(<<BigLine, BigLine>>)}

Prog == "errnos.py"
Argvs == {<<Prog>>, <<Prog, "decls">>, <<Prog, "defs">>, <<Prog, "table">>, <<Prog, "bogus">>}

----------------------------------------------------------------------------
(* errnos.py main() *)
GenIdle ==
  /\ argv = <<>> /\ tool = "none" /\ raw = <<>> /\ lines = <<>> /\ errnos = <<>>
  /\ idx = 0 /\ next = 0 /\ which = "unset" /\ out = <<>> /\ pc = "off"
  /\ err = "none" /\ exit = -1

ShimIdle ==
  /\ spc = "off" /\ envDir = 0 /\ cwd = 0 /\ mainCwd = -1 /\ mainRet = -1 /\ sexit = -1

Init ==
  /\ argv \in Argvs
  /\ tool = "none" /\ raw = <<>> /\ lines = <<>> /\ errnos = <<>>
  /\ idx = 0 /\ next = 0 /\ which = "unset" /\ out = <<>> /\ pc = "run"
  /\ err = "none" /\ exit = -1
  /\ ShimIdle

Fail(e) == /\ pc' = "failed" /\ err' = e /\ exit' = 1

(* line 13: subprocess.run without check=True *)
RunToolOk ==
  /\ pc = "run"
  /\ \E r \in RawInputs : raw' = r
  /\ tool' = "ok" /\ pc' = "split"
  /\ UNCHANGED <<argv, lines, errnos, idx, next, which, out, err, exit>>
  /\ UNCHANGED shimVars

RunToolNonZero ==
  /\ pc = "run"
  /\ \E r \in RawInputs : raw' = r
  /\ tool' = "nonzero" /\ pc' = "split"
  /\ UNCHANGED <<argv, lines, errnos, idx, next, which, out, err, exit>>
  /\ UNCHANGED shimVars

RunToolMissing ==
  /\ pc = "run"
  /\ tool' = "missing" /\ Fail("FileNotFoundError")
  /\ UNCHANGED <<argv, raw, lines, errnos, idx, next, which, out>>
  /\ UNCHANGED shimVars

(* lines 15-16 *)
BeginParse ==
  /\ pc = "split"
  /\ lines' = SplitLines(raw) /\ errnos' = <<>> /\ idx' = 1 /\ pc' = "parse"
  /\ UNCHANGED <<argv, tool, raw, next, which, out, err, exit>>
  /\ UNCHANGED shimVars

(* lines 17-18 *)
ParseLineOk ==
  /\ pc = "parse" /\ idx <= Len(lines)
  /\ ParseOne(lines[idx]).ok
  /\ errnos' = Append(errnos, ParseOne(lines[idx]).entry)
  /\ idx' = idx + 1
  /\ UNCHANGED <<argv, tool, raw, lines, next, which, out, pc, err, exit>>
  /\ UNCHANGED shimVars

(* variant: a rejected line is skipped *)
ParseLineSkip ==
  /\ pc = "parse" /\ idx <= Len(lines)
  /\ ~ParseOne(lines[idx]).ok
  /\ idx' = idx + 1
  /\ UNCHANGED <<argv, tool, raw, lines, errnos, next, which, out, pc, err, exit>>
  /\ UNCHANGED shimVars

ParseLineFail ==
  /\ pc = "parse" /\ idx <= Len(lines)
  /\ ~ParseOne(lines[idx]).ok
  /\ Fail("ValueError")
  /\ UNCHANGED <<argv, tool, raw, lines, errnos, idx, next, which, out>>
  /\ UNCHANGED shimVars

(* line 20 *)
SortErrnos ==
  /\ pc = "parse" /\ idx > Len(lines)
  /\ errnos' = SortByNum(errnos) /\ pc' = "select"
  /\ UNCHANGED <<argv, tool, raw, lines, idx, next, which, out, err, exit>>
  /\ UNCHANGED shimVars

(* lines 22, 24, 29, 34 *)
ModeOf(w) == IF w = "decls" THEN "decls" ELSE IF w = "defs" THEN "defs" ELSE "table1"

SelectMode ==
  /\ pc = "select"
  /\ IF Len(argv) > 0
     THEN /\ Len(argv) >= 2
          /\ which' = argv[2]
     ELSE which' = "None"
  /\ pc' = ModeOf(which') /\ idx' = 1 /\ next' = 0
  /\ UNCHANGED <<argv, tool, raw, lines, errnos, out, err, exit>>
  /\ UNCHANGED shimVars

SelectModeIndexError ==
  /\ pc = "select"
  /\ Len(argv) > 0 /\ Len(argv) < 2
  /\ Fail("IndexError")
  /\ UNCHANGED <<argv, tool, raw, lines, errnos, idx, next, which, out>>
  /\ UNCHANGED shimVars

(* lines 25-27 *)
PrintDecl ==
  /\ pc = "decls" /\ idx <= Len(errnos)
  /\ out' = Append(out, DeclLine(errnos[idx])) /\ idx' = idx + 1
  /\ UNCHANGED <<argv, tool, raw, lines, errnos, next, which, pc, err, exit>>
  /\ UNCHANGED shimVars

DeclsReturn ==
  /\ pc = "decls" /\ idx > Len(errnos)
  /\ pc' = "done" /\ exit' = 0
  /\ UNCHANGED <<argv, tool, raw, lines, errnos, idx, next, which, out, err>>
  /\ UNCHANGED shimVars

(* lines 30-32 *)
PrintDef ==
  /\ pc = "defs" /\ idx <= Len(errnos)
  /\ out' = Append(out, DefLine(errnos[idx])) /\ idx' = idx + 1
  /\ UNCHANGED <<argv, tool, raw, lines, errnos, next, which, pc, err, exit>>
  /\ UNCHANGED shimVars

DefsReturn ==
  /\ pc = "defs" /\ idx > Len(errnos)
  /\ pc' = "done" /\ exit' = 0
  /\ UNCHANGED <<argv, tool, raw, lines, errnos, idx, next, which, out, err>>
  /\ UNCHANGED shimVars

(* lines 35-40 *)
TableEntry1 ==
  /\ pc = "table1" /\ idx <= Len(errnos)
  /\ out' = out \o TableStep(next, errnos[idx]).lines
  /\ next' = TableStep(next, errnos[idx]).next
  /\ idx' = idx + 1
  /\ UNCHANGED <<argv, tool, raw, lines, errnos, which, pc, err, exit>>
  /\ UNCHANGED shimVars

(* variant: the second loop continues the running index *)
Table1EndNoReset ==
  /\ pc = "table1" /\ idx > Len(errnos)
  /\ idx' = 1 /\ pc' = "table2"
  /\ UNCHANGED <<argv, tool, raw, lines, errnos, next, which, out, err, exit>>
  /\ UNCHANGED shimVars

(* line 43 *)
Table1End ==
  /\ pc = "table1" /\ idx > Len(errnos)
  /\ next' = 0 /\ idx' = 1 /\ pc' = "table2"
  /\ UNCHANGED <<argv, tool, raw, lines, errnos, which, out, err, exit>>
  /\ UNCHANGED shimVars

(* lines 44-49 *)
TableEntry2 ==
  /\ pc = "table2" /\ idx <= Len(errnos)
  /\ out' = out \o TableStep(next, errnos[idx]).lines
  /\ next' = TableStep(next, errnos[idx]).next
  /\ idx' = idx + 1
  /\ UNCHANGED <<argv, tool, raw, lines, errnos, which, pc, err, exit>>
  /\ UNCHANGED shimVars

Table2End ==
  /\ pc = "table2" /\ idx > Len(errnos)
  /\ pc' = "done" /\ exit' = 0
  /\ UNCHANGED <<argv, tool, raw, lines, errnos, idx, next, which, out, err>>
  /\ UNCHANGED shimVars

Next ==
  \/ RunToolOk \/ RunToolNonZero \/ RunToolMissing
  \/ BeginParse \/ ParseLineOk \/ ParseLineFail \/ SortErrnos
  \/ SelectMode \/ SelectModeIndexError
  \/ PrintDecl \/ DeclsReturn \/ PrintDef \/ DefsReturn
  \/ TableEntry1 \/ Table1End \/ TableEntry2 \/ Table2End

Spec == Init /\ [][Next]_vars

----------------------------------------------------------------------------
(* shim.py: os.chdir(os.environ['BUILD_WORKING_DIRECTORY']); sys.exit(main()) *)
(* Directories are 1..NumDirs; envDir = 0 means the variable is not set.      *)
(* mainCwd records the working directory in which main() was entered          *)
(* (-1: main() was never entered).                                            *)
Dirs == 1..NumDirs
ExitWidth == 256

(* sys.exit(n) for an integer n *)
SysExit(n) == n % ExitWidth

ShimInit ==
  /\ GenIdle
  /\ spc = "start" /\ envDir \in {0} \cup Dirs /\ cwd \in Dirs
  /\ mainCwd = -1 /\ mainRet = -1 /\ sexit = -1

(* lines 5-9 *)
ShimImport ==
  /\ spc = "start" /\ spc' = "chdir"
  /\ UNCHANGED <<envDir, cwd, mainCwd, mainRet, sexit>>
  /\ UNCHANGED genVars

(* variant: main() is entered without changing directory *)
ShimChdirSkipped ==
  /\ spc = "chdir" /\ envDir # 0
  /\ spc' = "call"
  /\ UNCHANGED <<envDir, cwd, mainCwd, mainRet, sexit>>
  /\ UNCHANGED genVars

(* line 10 *)
ShimChdir ==
  /\ spc = "chdir" /\ envDir # 0
  /\ cwd' = envDir /\ spc' = "call"
  /\ UNCHANGED <<envDir, mainCwd, mainRet, sexit>>
  /\ UNCHANGED genVars

(* line 10: os.environ[...] raises KeyError *)
ShimChdirKeyError ==
  /\ spc = "chdir" /\ envDir = 0
  /\ spc' = "exited" /\ sexit' = 1
  /\ UNCHANGED <<envDir, cwd, mainCwd, mainRet>>
  /\ UNCHANGED genVars

(* line 10: os.chdir raises OSError (no such directory) *)
ShimChdirOSError ==
  /\ spc = "chdir" /\ envDir # 0
  /\ spc' = "exited" /\ sexit' = 1
  /\ UNCHANGED <<envDir, cwd, mainCwd, mainRet>>
  /\ UNCHANGED genVars

(* line 11: main() is entered *)
ShimCallMain ==
  /\ spc = "call"
  /\ mainCwd' = cwd /\ spc' = "main"
  /\ UNCHANGED <<envDir, cwd, mainRet, sexit>>
  /\ UNCHANGED genVars

(* line 11: main() returns an exit code *)
ShimMainReturn ==
  /\ spc = "main"
  /\ \E r \in 0..MaxRet : mainRet' = r
  /\ spc' = "exit"
  /\ UNCHANGED <<envDir, cwd, mainCwd, sexit>>
  /\ UNCHANGED genVars

(* line 11: sys.exit(...) *)
ShimExit ==
  /\ spc = "exit"
  /\ sexit' = SysExit(mainRet) /\ spc' = "exited"
  /\ UNCHANGED <<envDir, cwd, mainCwd, mainRet>>
  /\ UNCHANGED genVars

ShimNext ==
  \/ ShimImport \/ ShimChdir \/ ShimChdirKeyError \/ ShimChdirOSError
  \/ ShimCallMain \/ ShimMainReturn \/ ShimExit

ShimSpec == ShimInit /\ [][ShimNext]_vars

----------------------------------------------------------------------------
(* Vocabulary of the properties *)
TableLine(l) == l.kind \in {"empty", "entry"}
AllDigits(l) == \A k \in 1..Len(l) : IsDigit(l[k])

RECURSIVE LabelValue(_)
LabelValue(l) == IF l = <<>> THEN 0
                 ELSE 10 * LabelValue(SubSeq(l, 1, Len(l) - 1)) + DigitVal(l[Len(l)])

MaxNum(es) == CHOOSE m \in {es[k].num : k \in 1..Len(es)} :
                \A k \in 1..Len(es) : es[k].num <= m

StrictlyIncreasing(es) ==
  /\ es # <<>>
  /\ \A k \in 1..Len(es) : es[k].num >= 0 /\ (k > 1 => es[k - 1].num < es[k].num)

FirstCopyDone == pc = "table2" /\ idx = 1 /\ next = 0
Terminated == pc \in {"done", "failed"}
ToolRan == tool \in {"ok", "nonzero"}
AllParse == \A k \in 1..Len(SplitLines(raw)) : ParseOne(SplitLines(raw)[k]).ok
InputEntries == [k \in 1..Len(lines) |-> ParseOne(lines[k]).entry]

(* the order a stable ascending sort by number must produce *)
StableOrder(es) ==
  CHOOSE p \in [1..Len(es) -> 1..Len(es)] :
    \A i, j \in 1..Len(es) :
      i < j => \/ es[p[i]].num < es[p[j]].num
               \/ es[p[i]].num = es[p[j]].num /\ p[i] < p[j]

(* title-casing stated position by position *)
TitleCased(s) ==
  [k \in 1..Len(s) |->
     IF ~IsCased(s[k]) THEN s[k]
     ELSE IF k > 1 /\ IsCased(s[k - 1]) THEN Lower(s[k]) ELSE Upper(s[k])]

(* the gap-filled table of the sorted entries, emitted twice *)
TableTwice ==
  /\ Len(out) % 2 = 0
  /\ LET h == Len(out) \div 2
     IN /\ \A k \in 1..h : TableLine(out[k]) /\ out[k] = out[h + k]
        /\ h > 0 => LabelValue(out[1].label) = 0 /\ LabelValue(out[h + 1].label) = 0

----------------------------------------------------------------------------
(* C1: for N >= 1 entries with strictly increasing non-negative numbers,   *)
(* one copy of the table has exactly nN + 1 lines whose index labels are   *)
(* 0, 1, ..., nN in ascending order, with no gap and no repeat.            *)
C1_TableDense ==
  (FirstCopyDone /\ StrictlyIncreasing(errnos)) =>
     /\ Len(out) = errnos[Len(errnos)].num + 1
     /\ \A k \in 1..Len(out) :
          TableLine(out[k]) /\ AllDigits(out[k].label) /\ LabelValue(out[k].label) = k - 1

C1_Witness ==
  /\ FirstCopyDone /\ StrictlyIncreasing(errnos) /\ Len(errnos) = 2
  /\ errnos[1].num = 1 /\ errnos[2].num = 3 /\ Len(out) = 4

(* C2: with no mode argument and a tool output that parses, the run        *)
(* selects table mode, emits the table twice and exits with status 0.      *)
C2_NoArgDefaultTable ==
  (Len(argv) = 1 /\ tool = "ok" /\ AllParse /\ Terminated) =>
     /\ pc = "done" /\ exit = 0
     /\ which \notin {"decls", "defs"}
     /\ TableTwice

(* C3: if the enumeration utility fails (non-zero exit or missing          *)
(* executable) the generator never exits 0.                                *)
C3_ToolFailureNonZeroExit ==
  (tool \in {"nonzero", "missing"}) => (pc # "done" /\ exit # 0)

RECURSIVE TakeToken(_)
TakeToken(s) == IF s = <<>> \/ IsSpace(s[1]) THEN <<>> ELSE <<s[1]>> \o TakeToken(Tail(s))

RECURSIVE WsSplitFrom(_, _)
WsSplitFrom(s, left) ==
  LET t == LStrip(s)
  IN IF t = <<>> THEN <<>>
     ELSE IF left = 0 THEN <<t>>
     ELSE <<TakeToken(t)>> \o WsSplitFrom(SubSeq(t, Len(TakeToken(t)) + 1, Len(t)), left - 1)

WhitespaceParse(line) == ParseWith(WsSplitFrom(line, 2))

ParsedSoFarAgree(P(_)) ==
  (pc = "parse" \/ (pc = "failed" /\ err = "ValueError")) =>
     /\ \A k \in 1..(idx - 1) : P(lines[k]).ok /\ errnos[k] = P(lines[k]).entry
     /\ pc = "failed" => ~P(lines[idx]).ok

C5_WhitespaceSeparated == ParsedSoFarAgree(WhitespaceParse)

(* C5 amended: a line is rejected exactly when it holds fewer than two     *)
(* space characters or the text between its first and second space is not  *)
(* an integer literal; otherwise the name is the text before the first     *)
(* space, the number the value of the text between the two spaces and the  *)
(* message everything after the second space (possibly empty).             *)
SpacePos(line) == {k \in 1..Len(line) : line[k] = SP}
FirstSpace(line) == CHOOSE k \in SpacePos(line) : \A j \in SpacePos(line) : k <= j
SecondSpace(line) ==
  CHOOSE k \in SpacePos(line) \ {FirstSpace(line)} :
    \A j \in SpacePos(line) \ {FirstSpace(line)} : k <= j

SingleSpaceParse(line) ==
  IF Cardinality(SpacePos(line)) < 2 THEN [ok |-> FALSE, entry |-> <<>>]
  ELSE LET n == PyInt(SubSeq(line, FirstSpace(line) + 1, SecondSpace(line) - 1))
       IN IF ~n.ok THEN [ok |-> FALSE, entry |-> <<>>]
          ELSE [ok |-> TRUE,
                entry |-> [num |-> n.val,
                           name |-> SubSeq(line, 1, FirstSpace(line) - 1),
                           message |-> SubSeq(line, SecondSpace(line) + 1, Len(line))]]

C5_SingleSpaceSeparated == ParsedSoFarAgree(SingleSpaceParse)

C5_Witness ==
  /\ pc = "parse" /\ idx = 3
  /\ errnos[1].message = <<>> /\ errnos[1].num = 3
  /\ Len(errnos[2].message) = 5

(* C6: decls emits N declaration lines and defs N definition lines, in     *)
(* ascending order of number with ties in input order and no table line;   *)
(* line i names the title-cased identifier of the i-th entry, and the      *)
(* definition line binds it to that entry's number.                        *)
C6_DeclsDefsAgree ==
  (pc = "done" /\ which \in {"decls", "defs"}) =>
     LET es == InputEntries
         p == StableOrder(es)
     IN /\ Len(out) = Len(es)
        /\ \A k \in 1..Len(out) :
             /\ out[k].kind = (IF which = "decls" THEN "decl" ELSE "def")
             /\ out[k].name = TitleCased(es[p[k]].name)
             /\ which = "defs" =>
                  PyInt(out[k].label).ok /\ PyInt(out[k].label).val = es[p[k]].num

C6_Witness ==
  /\ pc = "done" /\ which = "defs" /\ Len(out) = 2
  /\ errnos[1].num = errnos[2].num /\ errnos[1].name # errnos[2].name
  /\ out[1].name = <<"E", "l", "2", "H">> /\ out[2].name = <<"E", "p", "e", "r", "m">>

(* C7: for a mode argument other than decls and defs the output is the     *)
(* table followed by a line-for-line identical second copy whose index     *)
(* labels restart at 0.                                                    *)
C7_TableEmittedTwice ==
  (pc = "done" /\ which \notin {"decls", "defs"}) => TableTwice

C7_Witness ==
  /\ pc = "done" /\ which = "bogus" /\ Len(out) = 8
  /\ out[4].kind = "entry" /\ out[5].kind = "empty"

(* C8 as stated: every table line carries a label of exactly four digits.  *)
C8_ExactlyFourDigits ==
  \A k \in 1..Len(out) :
    TableLine(out[k]) => (AllDigits(out[k].label) /\ Len(out[k].label) = 4)

(* C8 amended: every table line carries a decimal label zero-padded to at  *)
(* least four digits; it has exactly four digits when the index is below   *)
(* 10000 and the plain decimal digits of the index otherwise.              *)
C8_AtLeastFourDigits ==
  \A k \in 1..Len(out) :
    TableLine(out[k]) =>
      /\ AllDigits(out[k].label)
      /\ Len(out[k].label) >= 4
      /\ (Len(out[k].label) = 4) <=> (LabelValue(out[k].label) < 10000)
      /\ Len(out[k].label) > 4 => out[k].label[1] # "0"

C8_Witness ==
  /\ FirstCopyDone /\ Len(out) = 10002
  /\ out[1].label = <<"0", "0", "0", "0">>
  /\ out[10000].label = <<"9", "9", "9", "9">>
  /\ out[10002].label = <<"1", "0", "0", "0", "1">>

(* C9: for any input that parses (numbers non-negative, not necessarily    *)
(* distinct) one copy of the table has exactly one line per slot from 0 to *)
(* the maximum number: a populated line is labelled with the number of the *)
(* entry it prints, a slot without entry is a placeholder, and no index is *)
(* duplicated, skipped or above the maximum.                               *)
C9_OneLinePerSlot ==
  (FirstCopyDone /\ errnos # <<>> /\ \A k \in 1..Len(errnos) : errnos[k].num >= 0) =>
     /\ Len(out) = MaxNum(errnos) + 1
     /\ \A k \in 1..Len(out) :
          /\ LabelValue(out[k].label) = k - 1
          /\ out[k].kind = "entry" =>
               \E j \in 1..Len(errnos) :
                 /\ errnos[j].num = k - 1
                 /\ errnos[j].name = out[k].name /\ errnos[j].message = out[k].message
          /\ out[k].kind = "empty" => \A j \in 1..Len(errnos) : errnos[j].num # k - 1

====
